---------------------------- MODULE Spec2Model ----------------------------
(* A model of the Coinbase trading bot of src/main.py: the position book   *)
(* (the global dict `positions`), execute_trade, record_position,          *)
(* calculate_pl, check_stop_loss, generate_signals and the cycle that      *)
(* trading_bot runs each time the scheduler fires.                         *)
(*                                                                         *)
(* Numbers.  The program computes in Python floats; the model computes in  *)
(* fixed point.  A price is an integer number of cents, a size an integer  *)
(* number of 1/10000 base units, a profit/loss their product.  The closes  *)
(* of the hourly candles are multiples of 50 dollars, so that              *)
(* close * 1.001 and close * 0.999 are whole cents; comparisons against    *)
(* entry_price * (1 -/+ 0.02) are made exactly, by cross-multiplying.      *)
(* Float rounding is not modelled.                                         *)
EXTENDS Integers, Sequences, FiniteSets, TLC

VARIABLES
    SAFE_MODE,   \* main.py:27, the simulation flag
    positions,   \* main.py:75, the dict, as the sequence of its items in insertion order
    pc,          \* where trading_bot stands: "idle", "stop_loss", "products", "signals"
    scanQueue,   \* check_stop_loss: the items of list(positions.items()) still to visit
    products,    \* trading_bot: products[:10], as product ids
    idx,         \* trading_bot: the index (from 1) of the next product of the for loop
    lastOp,      \* what the last step did (observation only, never read by the program)
    cycle,       \* what the current cycle has done so far (observation only)
    df,          \* the data frame handed to generate_signals when it is called on its own
    sigOut       \* what generate_signals returned for df ("none" before the call)

vars == <<SAFE_MODE, positions, pc, scanQueue, products, idx, lastOp, cycle, df, sigOut>>

-----------------------------------------------------------------------------
(* Bounds and input sets *)

\* Hourly closes are 5000 * k cents for k in 1..MaxCloseSteps.
MaxCloseSteps == 2

HourCloses == { 5000 * k : k \in 1..MaxCloseSteps }

\* The latest 1-minute closes check_stop_loss may see: both sides of the stop
\* of every entry price in play (5005: 4904.9; 10000: 9800 and 10200).
MinutePrices == { 4904, 4905, 9800, 9801, 10199, 10200 }

ProductIds ==
    { "A-USD", "B-USD", "D-USD", "C-EUR",
      "E1-EUR", "E2-EUR", "E3-EUR", "E4-EUR", "E5-EUR", "E6-EUR", "E7-EUR" }

\* product_id.endswith('-USD')
EndsWithUSD(product_id) == product_id \in { "A-USD", "B-USD", "D-USD" }

Product(id, disabled) == [ product_id |-> id, trading_disabled |-> disabled ]

\* A listing of eleven trading-enabled products: eight quoted in EUR, then
\* B-USD and A-USD, then D-USD in the eleventh place.
LongListing ==
    << Product("E1-EUR", FALSE), Product("E2-EUR", FALSE), Product("E3-EUR", FALSE),
       Product("E4-EUR", FALSE), Product("E5-EUR", FALSE), Product("E6-EUR", FALSE),
       Product("E7-EUR", FALSE), Product("C-EUR", FALSE),
       Product("B-USD", FALSE), Product("A-USD", FALSE), Product("D-USD", FALSE) >>

\* What api.get_products() can answer: a listing, or an error.
Listings ==
    { << >>,
      LongListing,
      << Product("A-USD", TRUE), Product("B-USD", FALSE) >> }

\* The latest row of the data frame after calculate_indicators, with the frame's length.
DataFrames ==
    [ len : { 49, 50, 60 }, close : HourCloses,
      rsi : { 25, 30, 70, 75 }, macd_hist : { -1, 0, 1 },
      ema20 : { 90, 100, 110 }, ema50 : { 100 } ]

NoDf == [ len |-> 0, close |-> 0, rsi |-> 0, macd_hist |-> 0, ema20 |-> 0, ema50 |-> 0 ]

\* The frames the cycle's signal pass is run on: those of DataFrames away from
\* the thresholds whose macd_hist and EMAs agree, with one HOLD case (rsi = 30);
\* the other frames and the thresholds themselves are explored where
\* generate_signals is called on its own.
CycleFrames ==
    { d \in DataFrames :
        /\ d.len # 50 /\ d.rsi # 70 /\ d.macd_hist # 0 /\ d.ema20 # 100
        /\ d.macd_hist > 0 <=> d.ema20 > d.ema50 }

\* What the collaborators do during one iteration of check_stop_loss:
\* get_historical_data fails (fetchOk = FALSE) or yields a latest close, and
\* api.create_order, if called, returns an order or raises, and the Telegram
\* channel, if used, delivers the message (notifyOk) or fails.
StopLossInputs ==
    { [ fetchOk |-> FALSE, current_price |-> 0, apiOk |-> TRUE, notifyOk |-> TRUE ] }
    \cup [ fetchOk : { TRUE }, current_price : MinutePrices, apiOk : BOOLEAN,
           notifyOk : BOOLEAN ]

\* The same for one iteration of the signal pass.
\* The channel may fail on the frames of 60 rows.
SignalInputs ==
    { [ fetchOk |-> FALSE, d |-> NoDf, apiOk |-> TRUE, notifyOk |-> TRUE ] }
    \cup [ fetchOk : { TRUE }, d : CycleFrames, apiOk : BOOLEAN, notifyOk : { TRUE } ]
    \cup [ fetchOk : { TRUE },
           d : { f \in CycleFrames : f.len = 60 },
           apiOk : BOOLEAN, notifyOk : { FALSE } ]

-----------------------------------------------------------------------------
(* The position book: the dict `positions` *)

NoPos == [ size |-> 0, entry_price |-> 0, is_short |-> FALSE ]

Keys(book) == { book[i].product_id : i \in 1..Len(book) }

\* product_id in positions
Has(book, product_id) == product_id \in Keys(book)

\* positions[product_id]
Get(book, product_id) ==
    IF Has(book, product_id)
    THEN (CHOOSE e \in { book[i] : i \in 1..Len(book) } : e.product_id = product_id).pos
    ELSE NoPos

\* positions[product_id] = pos: an existing key keeps its place, a new one goes last
Put(book, product_id, pos) ==
    IF Has(book, product_id)
    THEN [ i \in 1..Len(book) |->
             IF book[i].product_id = product_id
             THEN [ product_id |-> product_id, pos |-> pos ] ELSE book[i] ]
    ELSE Append(book, [ product_id |-> product_id, pos |-> pos ])

\* del positions[product_id]
Del(book, product_id) ==
    SelectSeq(book, LAMBDA e : e.product_id # product_id)

-----------------------------------------------------------------------------
(* The functions of main.py *)

\* What a step reports.  `outcome` is how the book operation of the step ended:
\* "none" (no book operation), "returned" (it returned normally), or the name of
\* the error it raised.  `evaluated`: the signal pass called get_historical_data
\* for the product; `rows`: the length of the frame it got; `delivered`: the
\* notification of execute_trade reached the channel.
NoOp ==
    [ kind |-> "init", product_id |-> "none", evaluated |-> FALSE,
      fetched |-> FALSE, rows |-> 0, current_price |-> 0,
      signal |-> "none", pos |-> NoPos,
      traded |-> FALSE, side |-> "none", size |-> 0, price |-> 0,
      contacted |-> FALSE, placed |-> FALSE, ok |-> FALSE, notifs |-> 0,
      delivered |-> FALSE,
      recorded |-> FALSE, closed |-> FALSE, exit_price |-> 0, pl |-> 0,
      outcome |-> "none" ]

\* generate_signals with the RSI test of the BUY rule made inclusive
generate_signals_RsiInclusive(d) ==
    IF d.len = 0 \/ d.len < 50 THEN "HOLD"
    ELSE IF d.rsi <= 30 /\ d.macd_hist > 0 /\ d.ema20 > d.ema50 THEN "BUY"
    ELSE IF d.rsi > 70 \/ d.macd_hist < 0 \/ d.ema20 < d.ema50 THEN "SELL"
    ELSE "HOLD"

\* generate_signals without its test of the frame's length
generate_signals_NoLengthTest(d) ==
    IF d.rsi < 30 /\ d.macd_hist > 0 /\ d.ema20 > d.ema50 THEN "BUY"
    ELSE IF d.rsi > 70 \/ d.macd_hist < 0 \/ d.ema20 < d.ema50 THEN "SELL"
    ELSE "HOLD"

\* generate_signals(df), main.py:151-166
generate_signals(d) ==
    IF d.len = 0 \/ d.len < 50 THEN "HOLD"
    ELSE IF d.rsi < 30 /\ d.macd_hist > 0 /\ d.ema20 > d.ema50 THEN "BUY"
    ELSE IF d.rsi > 70 \/ d.macd_hist < 0 \/ d.ema20 < d.ema50 THEN "SELL"
    ELSE "HOLD"

\* get_trading_products(), main.py:91-105.  resp is what api.get_products() did:
\* resp.ok = FALSE is an exception or an invalid response.
get_trading_products(resp) ==
    IF ~resp.ok THEN << >>
    ELSE SelectSeq(resp.products, LAMBDA p : ~p.trading_disabled)

\* products[:10], main.py:348
FirstTen(s) == SubSeq(s, 1, IF Len(s) < 10 THEN Len(s) ELSE 10)

\* send_telegram_message(message), main.py:80-89: one attempt; a failure of the
\* channel (or no channel configured) is logged and nothing is raised.
send_telegram_message(notifyOk) ==
    [ attempts |-> 1, delivered |-> notifyOk, raised |-> FALSE ]

\* execute_trade without the SAFE_MODE branch: every order goes to the exchange
execute_trade_NoSafeMode(side, size, price, apiOk, notifyOk) ==
    LET n == send_telegram_message(notifyOk)
    IN  [ ok |-> apiOk, contacted |-> TRUE, placed |-> apiOk,
          notifs |-> n.attempts, delivered |-> n.delivered ]

\* execute_trade whose except branch returns a truthy value
execute_trade_FailureReportsOk(side, size, price, apiOk, notifyOk) ==
    LET n == send_telegram_message(notifyOk)
    IN  IF SAFE_MODE
        THEN [ ok |-> TRUE, contacted |-> FALSE, placed |-> FALSE,
               notifs |-> n.attempts, delivered |-> n.delivered ]
        ELSE [ ok |-> TRUE, contacted |-> TRUE, placed |-> apiOk,
               notifs |-> n.attempts, delivered |-> n.delivered ]

\* execute_trade with a send_telegram_message that lets the channel's error
\* out: in live mode the except branch then runs after a placed order, notifies
\* again and returns None.
execute_trade_NotifyErrorEscapes(side, size, price, apiOk, notifyOk) ==
    LET n == send_telegram_message(notifyOk)
    IN  IF SAFE_MODE
        THEN [ ok |-> TRUE, contacted |-> FALSE, placed |-> FALSE,
               notifs |-> n.attempts, delivered |-> n.delivered ]
        ELSE IF apiOk /\ notifyOk
        THEN [ ok |-> TRUE, contacted |-> TRUE, placed |-> TRUE,
               notifs |-> n.attempts, delivered |-> n.delivered ]
        ELSE [ ok |-> FALSE, contacted |-> TRUE, placed |-> apiOk,
               notifs |-> IF apiOk THEN 2 * n.attempts ELSE n.attempts,
               delivered |-> n.delivered ]

\* execute_trade(product_id, side, size, price), main.py:235-260.  apiOk tells
\* whether api.create_order would return an order (TRUE) or raise (FALSE).
\* contacted: api.create_order was called; placed: it returned an order;
\* ok: the value execute_trade returns is truthy; notifs: the calls it makes of
\* send_telegram_message; delivered: whether that message got through.
execute_trade(side, size, price, apiOk, notifyOk) ==
    LET n == send_telegram_message(notifyOk)
    IN  IF SAFE_MODE
        THEN [ ok |-> TRUE, contacted |-> FALSE, placed |-> FALSE,
               notifs |-> n.attempts, delivered |-> n.delivered ]
        ELSE IF apiOk
        THEN [ ok |-> TRUE, contacted |-> TRUE, placed |-> TRUE,
               notifs |-> n.attempts, delivered |-> n.delivered ]
        ELSE [ ok |-> FALSE, contacted |-> TRUE, placed |-> FALSE,
               notifs |-> n.attempts, delivered |-> n.delivered ]

\* record_position(product_id, size, price, is_short), main.py:262-271
\* (the timestamp it stores is never read and is left out)
record_position(book, product_id, size, price, is_short) ==
    [ book |-> Put(book, product_id,
                   [ size |-> size, entry_price |-> price, is_short |-> is_short ]),
      outcome |-> "returned" ]

\* calculate_pl without the is_short branch
calculate_pl_LongOnly(book, product_id, exit_price) ==
    IF ~Has(book, product_id)
    THEN [ book |-> book, closed |-> FALSE, pl |-> 0, outcome |-> "returned" ]
    ELSE LET pos == Get(book, product_id)
         IN  [ book |-> Del(book, product_id), closed |-> TRUE,
               pl |-> (exit_price - pos.entry_price) * pos.size,
               outcome |-> "returned" ]

\* calculate_pl without its del
calculate_pl_KeepsPosition(book, product_id, exit_price) ==
    IF ~Has(book, product_id)
    THEN [ book |-> book, closed |-> FALSE, pl |-> 0, outcome |-> "returned" ]
    ELSE LET pos == Get(book, product_id)
             pl  == IF pos.is_short
                    THEN (pos.entry_price - exit_price) * pos.size
                    ELSE (exit_price - pos.entry_price) * pos.size
         IN  [ book |-> book, closed |-> TRUE, pl |-> pl, outcome |-> "returned" ]

\* calculate_pl(product_id, exit_price), main.py:273-294
calculate_pl(book, product_id, exit_price) ==
    IF ~Has(book, product_id)
    THEN [ book |-> book, closed |-> FALSE, pl |-> 0, outcome |-> "returned" ]
    ELSE LET pos == Get(book, product_id)
             pl  == IF pos.is_short
                    THEN (pos.entry_price - exit_price) * pos.size
                    ELSE (exit_price - pos.entry_price) * pos.size
         IN  [ book |-> Del(book, product_id), closed |-> TRUE, pl |-> pl,
               outcome |-> "returned" ]

\* current_price >= entry_price * (1 + STOP_LOSS_PERCENTAGE), main.py:310-311
ShortStopHit(current_price, entry_price) ==
    current_price * 100 >= entry_price * (100 + 2)

\* the LONG stop test made strict
LongStopHit_Strict(current_price, entry_price) ==
    current_price * 100 < entry_price * (100 - 2)

\* current_price <= entry_price * (1 - STOP_LOSS_PERCENTAGE), main.py:322-323
LongStopHit(current_price, entry_price) ==
    current_price * 100 <= entry_price * (100 - 2)

\* The step's report after a call of execute_trade that returned t.
Traded(op, side, size, price, t) ==
    [ op EXCEPT !.traded = TRUE, !.side = side, !.size = size, !.price = price,
                !.contacted = t.contacted, !.placed = t.placed, !.ok = t.ok,
                !.notifs = t.notifs, !.delivered = t.delivered ]

\* One iteration of the loop of check_stop_loss, main.py:298-333, for the item
\* (product_id, pos) of the snapshot.  fetchOk: get_historical_data returned a
\* non-empty frame, whose last close is current_price.
StopLossItem(book, product_id, pos, fetchOk, current_price, apiOk, notifyOk) ==
    LET base == [ NoOp EXCEPT !.kind = "stop_loss", !.product_id = product_id,
                              !.pos = pos, !.fetched = fetchOk ]
    IN
    IF ~fetchOk THEN [ book |-> book, op |-> base ]
    ELSE
    LET seen == [ base EXCEPT !.current_price = current_price ]
        hit  == IF pos.is_short THEN ShortStopHit(current_price, pos.entry_price)
                                ELSE LongStopHit(current_price, pos.entry_price)
        side == IF pos.is_short THEN "buy" ELSE "sell"
        t    == execute_trade(side, pos.size, current_price, apiOk, notifyOk)
        trd  == Traded(seen, side, pos.size, current_price, t)
        c    == calculate_pl(book, product_id, current_price)
    IN
    IF ~hit THEN [ book |-> book, op |-> seen ]
    ELSE IF ~t.ok THEN [ book |-> book, op |-> trd ]
    ELSE [ book |-> c.book,
           op |-> [ trd EXCEPT !.closed = c.closed, !.exit_price = current_price,
                               !.pl = c.pl, !.outcome = c.outcome ] ]

\* The for loop of check_stop_loss goes on to the next item of its snapshot
\* whatever the iteration did: its body is one try/except, main.py:298-299 and
\* 332-333.
RestOfScan_AbortOnError(op, queue) ==
    IF ~op.fetched \/ ( op.traded /\ ~op.ok ) THEN << >> ELSE Tail(queue)

RestOfScan(op, queue) == Tail(queue)

\* position_size / current_price, main.py:346 and 363: 2 dollars, in cents, over
\* the price in cents, as a size in 1/10000 base units
PositionSize(current_price) == (200 * 10000) \div current_price

\* the buy price without its skew
BuyPrice_Unskewed(current_price) == current_price

\* current_price * 1.001, main.py:365
BuyPrice(current_price) == (current_price * 1001) \div 1000

\* current_price * 0.999, main.py:374
SellPrice(current_price) == (current_price * 999) \div 1000

\* The BUY branch of trading_bot, main.py:360-368.  seen: the step's report so far.
BuyBranch(book, product_id, seen, d, apiOk, notifyOk) ==
    LET size == PositionSize(d.close)
        buy_price == BuyPrice(d.close)
        t   == execute_trade("buy", size, buy_price, apiOk, notifyOk)
        trd == Traded(seen, "buy", size, buy_price, t)
        r   == record_position(book, product_id, size, buy_price, FALSE)
    IN  IF ~t.ok THEN [ book |-> book, op |-> trd ]
        ELSE [ book |-> r.book,
               op |-> [ trd EXCEPT !.recorded = TRUE, !.outcome = r.outcome ] ]

\* The SELL branch with a short entry: a SELL without a position sells the
\* fixed notional and records a SHORT.
SellBranch_OpensShort(book, product_id, seen, d, apiOk, notifyOk) ==
    LET sell_price == SellPrice(d.close)
        size == IF Has(book, product_id) THEN Get(book, product_id).size
                ELSE PositionSize(d.close)
        t   == execute_trade("sell", size, sell_price, apiOk, notifyOk)
        trd == Traded(seen, "sell", size, sell_price, t)
        c   == calculate_pl(book, product_id, sell_price)
        r   == record_position(book, product_id, size, sell_price, TRUE)
    IN  IF ~t.ok THEN [ book |-> book, op |-> trd ]
        ELSE IF Has(book, product_id)
        THEN [ book |-> c.book,
               op |-> [ trd EXCEPT !.closed = c.closed, !.exit_price = sell_price,
                                   !.pl = c.pl, !.outcome = c.outcome ] ]
        ELSE [ book |-> r.book,
               op |-> [ trd EXCEPT !.recorded = TRUE, !.outcome = r.outcome ] ]

\* The SELL branch of trading_bot, main.py:370-380.
SellBranch(book, product_id, seen, d, apiOk, notifyOk) ==
    IF Has(book, product_id) THEN
        LET sell_price == SellPrice(d.close)
            size == Get(book, product_id).size
            t   == execute_trade("sell", size, sell_price, apiOk, notifyOk)
            trd == Traded(seen, "sell", size, sell_price, t)
            c   == calculate_pl(book, product_id, sell_price)
        IN  IF ~t.ok THEN [ book |-> book, op |-> trd ]
            ELSE [ book |-> c.book,
                   op |-> [ trd EXCEPT !.closed = c.closed, !.exit_price = sell_price,
                                       !.pl = c.pl, !.outcome = c.outcome ] ]
    ELSE [ book |-> book, op |-> seen ]

\* One iteration of the for loop of trading_bot, main.py:348-380, for product_id.
\* fetchOk: get_historical_data returned a non-empty frame; d: its latest row
\* after calculate_indicators, and its length.
SignalItem(book, product_id, fetchOk, d, apiOk, notifyOk) ==
    LET base == [ NoOp EXCEPT !.kind = "signal", !.product_id = product_id,
                              !.pos = Get(book, product_id) ]
        eval == [ base EXCEPT !.evaluated = TRUE ]
    IN
    IF ~EndsWithUSD(product_id) THEN [ book |-> book, op |-> base ]
    ELSE IF ~fetchOk THEN [ book |-> book, op |-> eval ]
    ELSE
    LET signal == generate_signals(d)
        seen   == [ eval EXCEPT !.fetched = TRUE, !.rows = d.len,
                                !.current_price = d.close, !.signal = signal ]
    IN
    IF signal = "BUY" THEN BuyBranch(book, product_id, seen, d, apiOk, notifyOk)
    ELSE IF signal = "SELL" THEN SellBranch(book, product_id, seen, d, apiOk, notifyOk)
    ELSE [ book |-> book, op |-> seen ]

-----------------------------------------------------------------------------
(* The cycle: trading_bot, main.py:335-382, run by the scheduler, main.py:385-392 *)

\* What a cycle has done so far.  scans: calls of check_stop_loss; openAtStart:
\* the keys of the book when the cycle began; scanned: the keys the scan has
\* visited; stopClosed: those it closed; signalOpened: the products the signal
\* pass recorded a position for; failedSites: the call sites ("stop_loss",
\* "buy", "sell") whose order failed; failedProducts: the products whose order
\* failed;
\* listing: what api.get_products() answered; sliced: the ids of products[:10];
\* visited: the ids the for loop of the signal pass has reached; evaluated:
\* those it called get_historical_data for.
NewCycle ==
    [ scans |-> 0, openAtStart |-> {}, scanned |-> {}, stopClosed |-> {},
      signalOpened |-> {}, failedSites |-> {}, failedProducts |-> {},
      listing |-> << >>, sliced |-> {}, visited |-> {},
      evaluated |-> {} ]

\* The cycle's record after an iteration of check_stop_loss that reported op.
CycleAfterStopLoss(c, op) ==
    LET failed == op.traded /\ ~op.ok
    IN  [ c EXCEPT
            !.scanned = @ \cup { op.product_id },
            !.stopClosed = IF op.closed THEN @ \cup { op.product_id } ELSE @,
            !.failedSites = IF failed THEN @ \cup { "stop_loss" } ELSE @,
            !.failedProducts = IF failed THEN @ \cup { op.product_id } ELSE @ ]

\* The cycle's record after an iteration of the signal pass that reported op.
CycleAfterSignal(c, op) ==
    LET failed == op.traded /\ ~op.ok
    IN  [ c EXCEPT
            !.signalOpened = IF op.recorded THEN @ \cup { op.product_id } ELSE @,
            !.failedSites = IF failed THEN @ \cup { op.side } ELSE @,
            !.failedProducts = IF failed THEN @ \cup { op.product_id } ELSE @,
            !.visited = @ \cup { op.product_id },
            !.evaluated = IF op.evaluated THEN @ \cup { op.product_id } ELSE @ ]

Init ==
    /\ SAFE_MODE \in BOOLEAN
    /\ positions = << >>
    /\ pc = "idle"
    /\ scanQueue = << >>
    /\ products = << >>
    /\ idx = 1
    /\ lastOp = NoOp
    /\ cycle = NewCycle
    /\ df = NoDf
    /\ sigOut = "none"

\* trading_bot without its call of check_stop_loss
TradingBotStart_NoScan ==
    /\ pc = "idle"
    /\ pc' = "stop_loss"
    /\ scanQueue' = << >>
    /\ cycle' = [ NewCycle EXCEPT !.openAtStart = Keys(positions) ]
    /\ lastOp' = [ NoOp EXCEPT !.kind = "start" ]
    /\ products' = << >>
    /\ idx' = 1
    /\ UNCHANGED <<SAFE_MODE, positions, df, sigOut>>

\* trading_bot is entered and calls check_stop_loss, which takes its snapshot
\* list(positions.items()), main.py:337-340 and 298.
TradingBotStart ==
    /\ pc = "idle"
    /\ pc' = "stop_loss"
    /\ scanQueue' = positions
    /\ cycle' = [ NewCycle EXCEPT !.scans = 1, !.openAtStart = Keys(positions) ]
    /\ lastOp' = [ NoOp EXCEPT !.kind = "start" ]
    /\ products' = << >>
    /\ idx' = 1
    /\ UNCHANGED <<SAFE_MODE, positions, df, sigOut>>

\* check_stop_loss visits the next item of its snapshot, main.py:298-333, the
\* collaborators behaving as one of `inputs` (in simulation mode api.create_order
\* is not called, and what it would do is left out).
StopLossStepOn(inputs) ==
    /\ pc = "stop_loss"
    /\ scanQueue # << >>
    /\ \E in \in { i \in inputs : SAFE_MODE => i.apiOk } :
         LET e == Head(scanQueue)
             r == StopLossItem(positions, e.product_id, e.pos,
                               in.fetchOk, in.current_price, in.apiOk, in.notifyOk)
         IN  /\ positions' = r.book
             /\ lastOp' = r.op
             /\ cycle' = CycleAfterStopLoss(cycle, r.op)
             /\ scanQueue' = RestOfScan(r.op, scanQueue)
    /\ UNCHANGED <<SAFE_MODE, pc, products, idx, df, sigOut>>

StopLossStep == StopLossStepOn(StopLossInputs)

\* check_stop_loss has returned; trading_bot calls get_trading_products and
\* returns if the list is empty, main.py:342-346.
GetProducts ==
    /\ pc = "stop_loss"
    /\ scanQueue = << >>
    /\ \E resp \in [ ok : { TRUE }, products : Listings ]
                   \cup { [ ok |-> FALSE, products |-> << >> ] } :
         LET got == get_trading_products(resp)
             ten == FirstTen(got)
         IN  /\ products' = [ i \in 1..Len(ten) |-> ten[i].product_id ]
             /\ pc' = IF Len(got) = 0 THEN "idle" ELSE "signals"
             /\ cycle' = [ cycle EXCEPT
                   !.listing = resp.products,
                   !.sliced = { ten[i].product_id : i \in 1..Len(ten) } ]
    /\ idx' = 1
    /\ lastOp' = [ NoOp EXCEPT !.kind = "products" ]
    /\ UNCHANGED <<SAFE_MODE, positions, scanQueue, df, sigOut>>

\* The for loop of trading_bot handles its next product, main.py:348-380.
SignalStep ==
    /\ pc = "signals"
    /\ idx <= Len(products)
    /\ \E in \in { i \in SignalInputs : SAFE_MODE => i.apiOk } :
         LET product_id == products[idx]
             r == SignalItem(positions, product_id,
                             in.fetchOk, in.d, in.apiOk, in.notifyOk)
         IN  /\ positions' = r.book
             /\ lastOp' = r.op
             /\ cycle' = CycleAfterSignal(cycle, r.op)
    /\ idx' = idx + 1
    /\ UNCHANGED <<SAFE_MODE, pc, scanQueue, products, df, sigOut>>

\* The for loop is over and trading_bot returns, main.py:382; its locals are gone.
TradingBotEnd ==
    /\ pc = "signals"
    /\ idx > Len(products)
    /\ pc' = "idle"
    /\ products' = << >>
    /\ idx' = 1
    /\ lastOp' = [ NoOp EXCEPT !.kind = "end" ]
    /\ UNCHANGED <<SAFE_MODE, positions, scanQueue, cycle, df, sigOut>>

Next ==
    \/ TradingBotStart
    \/ StopLossStep
    \/ GetProducts
    \/ SignalStep
    \/ TradingBotEnd

Spec == Init /\ [][Next]_vars

-----------------------------------------------------------------------------
(* The book's functions called on their own, between cycles, with arguments  *)
(* trading_bot never passes (a SHORT position, a product without position).  *)
(* Such a call is no part of a cycle: the cycle's record starts afresh.      *)

\* record_position(product_id, 0.03, 100.00, is_short)
CallRecordPosition ==
    /\ pc = "idle"
    /\ \E product_id \in { "A-USD", "B-USD" }, is_short \in BOOLEAN :
         LET r == record_position(positions, product_id, 300, 10000, is_short)
         IN  /\ positions' = r.book
             /\ lastOp' = [ NoOp EXCEPT !.kind = "record_position",
                                        !.product_id = product_id,
                                        !.pos = Get(positions, product_id),
                                        !.size = 300, !.price = 10000,
                                        !.recorded = TRUE, !.outcome = r.outcome ]
    /\ cycle' = NewCycle
    /\ UNCHANGED <<SAFE_MODE, pc, scanQueue, products, idx, df, sigOut>>

\* calculate_pl(product_id, exit_price)
CallCalculatePl ==
    /\ pc = "idle"
    /\ \E product_id \in { "A-USD", "B-USD" }, exit_price \in { 9800, 10200 } :
         LET c == calculate_pl(positions, product_id, exit_price)
         IN  /\ positions' = c.book
             /\ lastOp' = [ NoOp EXCEPT !.kind = "calculate_pl",
                                        !.product_id = product_id,
                                        !.pos = Get(positions, product_id),
                                        !.closed = c.closed, !.exit_price = exit_price,
                                        !.pl = c.pl, !.outcome = c.outcome ]
    /\ cycle' = NewCycle
    /\ UNCHANGED <<SAFE_MODE, pc, scanQueue, products, idx, df, sigOut>>

NextBook ==
    \/ Next
    \/ CallRecordPosition
    \/ CallCalculatePl

SpecBook == Init /\ [][NextBook]_vars

(* generate_signals called on its own, on every frame of DataFrames *)

InitSignals ==
    /\ SAFE_MODE \in BOOLEAN
    /\ positions = << >>
    /\ pc = "idle"
    /\ scanQueue = << >>
    /\ products = << >>
    /\ idx = 1
    /\ lastOp = NoOp
    /\ cycle = NewCycle
    /\ df \in DataFrames
    /\ sigOut = "none"

CallGenerateSignals ==
    /\ sigOut = "none"
    /\ sigOut' = generate_signals(df)
    /\ UNCHANGED <<SAFE_MODE, positions, pc, scanQueue, products, idx, lastOp, cycle, df>>

SpecSignals == InitSignals /\ [][CallGenerateSignals]_vars

(* The cycles while every open position stays in breach of its stop: each     *)
(* price fetch of check_stop_loss succeeds with a latest close of 49.04, at   *)
(* or below 98% of every entry price the BUY branch can record, and each      *)
(* closing order succeeds.  The scheduler loop of main.py:387-392 runs        *)
(* trading_bot again and again and each call runs to its end: weak fairness.  *)

BreachInputs ==
    [ fetchOk : { TRUE }, current_price : { 4904 }, apiOk : { TRUE },
      notifyOk : BOOLEAN ]

StopLossStepInBreach == StopLossStepOn(BreachInputs)

NextInBreach ==
    \/ TradingBotStart
    \/ StopLossStepInBreach
    \/ GetProducts
    \/ SignalStep
    \/ TradingBotEnd

SpecInBreach == Init /\ [][NextInBreach]_vars /\ WF_vars(NextInBreach)

-----------------------------------------------------------------------------
(* The claims *)

\* C1: a BUY signal for an instrument that already has an open position submits
\* no order and leaves the position unchanged, and a position leaves the book or
\* changes only in a step that closes it (a closing trade or a stop-loss close).
C1_BuyKeepsOpenPosition ==
    [][ /\ ( lastOp'.kind = "signal" /\ lastOp'.signal = "BUY"
             /\ Has(positions, lastOp'.product_id) )
           => ( ~lastOp'.traded /\ positions' = positions )
        /\ \A p \in Keys(positions) :
             \/ ( Has(positions', p) /\ Get(positions', p) = Get(positions, p) )
             \/ ( ~Has(positions', p) /\ lastOp'.closed /\ lastOp'.product_id = p )
      ]_vars

\* C2: record_position for an instrument that already has a position in the
\* book ends with AlreadyOpenError and leaves the book unchanged.
C2_OpenTwiceFails ==
    [][ ( lastOp'.recorded /\ Has(positions, lastOp'.product_id) )
        => ( lastOp'.outcome = "AlreadyOpenError" /\ positions' = positions )
      ]_vars

\* C3: calculate_pl for an instrument with no position in the book ends with
\* NoPositionError, not with a normal return, and leaves the book unchanged.
C3_CloseWithoutPositionFails ==
    [][ ( lastOp'.kind = "calculate_pl" /\ ~Has(positions, lastOp'.product_id) )
        => ( lastOp'.outcome = "NoPositionError" /\ positions' = positions )
      ]_vars

\* A step in which calculate_pl was called (it is the only function that sets
\* an outcome without recording a position).
PlCalled(op) == op.outcome # "none" /\ ~op.recorded

\* C4: whenever calculate_pl is called with exit price X for an instrument whose
\* position has entry E and size S, it realizes (X - E) * S for a LONG and
\* (E - X) * S for a SHORT, and afterwards the instrument is not in the book.
C4_ProfitAndLoss ==
    [][ LET p   == lastOp'.product_id
            pos == Get(positions, p)
            X   == lastOp'.exit_price
        IN  ( PlCalled(lastOp') /\ Has(positions, p) )
            => /\ lastOp'.closed
               /\ lastOp'.pos = pos
               /\ pos.is_short => lastOp'.pl = (pos.entry_price - X) * pos.size
               /\ ~pos.is_short => lastOp'.pl = (X - pos.entry_price) * pos.size
               /\ ~Has(positions', p)
      ]_vars

\* C4, its case: a SHORT of size 0.03 entered at 100.00 closed at 98.00 has
\* realized (100.00 - 98.00) * 0.03.
C4_Witness ==
    /\ lastOp.closed
    /\ lastOp.pos = [ size |-> 300, entry_price |-> 10000, is_short |-> TRUE ]
    /\ lastOp.exit_price = 9800
    /\ lastOp.pl = 60000
    /\ ~Has(positions, lastOp.product_id)

\* C5: in an iteration of check_stop_loss whose price fetch succeeds, a LONG
\* position triggers a closing sell exactly when price <= entry * (1 - 0.02) and
\* a SHORT a closing buy exactly when price >= entry * (1 + 0.02); a LONG entered
\* at 100.00 is sold at 98.00 and not at 98.01; an iteration that triggers no
\* trade leaves the book as it was.
C5_StopLossTrigger ==
    [][ ( lastOp'.kind = "stop_loss" /\ lastOp'.fetched )
        => LET pos == Head(scanQueue).pos
               c   == lastOp'.current_price
           IN  /\ lastOp'.product_id = Head(scanQueue).product_id
               /\ ~pos.is_short =>
                    /\ lastOp'.traded <=> ( c * 100 <= pos.entry_price * 98 )
                    /\ lastOp'.traded => lastOp'.side = "sell"
               /\ pos.is_short =>
                    /\ lastOp'.traded <=> ( c * 100 >= pos.entry_price * 102 )
                    /\ lastOp'.traded => lastOp'.side = "buy"
               /\ ( ~pos.is_short /\ pos.entry_price = 10000 /\ c = 9800 )
                    => lastOp'.traded
               /\ ( ~pos.is_short /\ pos.entry_price = 10000 /\ c = 9801 )
                    => ~lastOp'.traded
               /\ lastOp'.traded => ( lastOp'.size = pos.size /\ lastOp'.price = c )
               /\ ~lastOp'.traded => positions' = positions
      ]_vars

\* C5, its case: a LONG entered at 100.00 has been sold and closed by the scan
\* at a price of exactly 98.00.
C5_Witness ==
    /\ lastOp.kind = "stop_loss"
    /\ lastOp.pos.entry_price = 10000
    /\ ~lastOp.pos.is_short
    /\ lastOp.current_price = 9800
    /\ lastOp.traded
    /\ lastOp.side = "sell"
    /\ lastOp.closed

\* C6: once a cycle lists the products or runs its signal pass, check_stop_loss
\* has been called exactly once in that cycle and has visited every position
\* that was open at the cycle's start, also when the listing is empty or fails
\* and the cycle ends there; while the scan runs, the signal pass has done
\* nothing yet.
C6_ScanBeforeSignals ==
    /\ ( pc = "signals" \/ lastOp.kind \in { "products", "signal", "end" } )
         => /\ cycle.scans = 1
            /\ scanQueue = << >>
            /\ cycle.scanned = cycle.openAtStart
    /\ pc = "stop_loss"
         => /\ lastOp.kind \in { "start", "stop_loss" }
            /\ cycle.signalOpened = {}
            /\ cycle.failedSites \subseteq { "stop_loss" }

\* C6, its case: the signal pass has submitted an order in a cycle that began
\* with two open positions.
C6_Witness ==
    /\ lastOp.kind = "signal"
    /\ lastOp.traded
    /\ Cardinality(cycle.openAtStart) = 2
    /\ cycle.scanned = cycle.openAtStart
    /\ cycle.scans = 1

\* C7: no instrument whose position the stop-loss scan closed in a cycle gets a
\* new position from the signal pass of the same cycle.
C7_StopLossPreempts ==
    cycle.stopClosed \cap cycle.signalOpened = {}

\* C8: in simulation mode every execute_trade reports success without calling
\* the order endpoint, and no step changes the simulation flag.
C8_SimulationNeverOrders ==
    /\ [] ( ( SAFE_MODE /\ lastOp.traded ) => ( ~lastOp.contacted /\ lastOp.ok ) )
    /\ [][ SAFE_MODE' = SAFE_MODE ]_vars

\* C8, its case: in simulation mode the stop-loss scan has sold and the signal
\* pass of the same cycle has bought.
C8_Witness ==
    /\ SAFE_MODE
    /\ lastOp.traded
    /\ lastOp.side = "buy"
    /\ lastOp.ok
    /\ cycle.stopClosed # {}

\* C9: in live mode, a step whose order submission fails has execute_trade
\* report failure and leaves the book exactly as it was, whichever of the three
\* call sites made the order.
C9_FailedOrderKeepsBook ==
    [][ ( ~SAFE_MODE /\ lastOp'.traded /\ lastOp'.contacted /\ ~lastOp'.placed )
        => ( ~lastOp'.ok /\ positions' = positions
             /\ ~lastOp'.recorded /\ ~lastOp'.closed )
      ]_vars

\* C9, its case: in one live cycle a stop-loss close, a signal-driven SELL and
\* a BUY entry have all failed.
C9_Witness ==
    /\ ~SAFE_MODE
    /\ cycle.failedSites = { "stop_loss", "buy", "sell" }
    /\ lastOp.traded
    /\ ~lastOp.ok

\* C10: on a frame of at least 50 rows generate_signals returns BUY exactly when
\* rsi < 30 and macd_hist > 0 and ema20 > ema50, otherwise SELL exactly when
\* rsi > 70 or macd_hist < 0 or ema20 < ema50, otherwise HOLD; a BUY condition
\* at its boundary gives no BUY.
C10_SignalRules ==
    ( sigOut # "none" /\ df.len >= 50 )
    => LET buy  == df.rsi < 30 /\ df.macd_hist > 0 /\ df.ema20 > df.ema50
           sell == df.rsi > 70 \/ df.macd_hist < 0 \/ df.ema20 < df.ema50
       IN  /\ sigOut = "BUY" <=> buy
           /\ sigOut = "SELL" <=> ( ~buy /\ sell )
           /\ sigOut = "HOLD" <=> ( ~buy /\ ~sell )
           /\ ( df.rsi = 30 \/ df.macd_hist = 0 \/ df.ema20 = df.ema50 )
                => sigOut # "BUY"

\* C10, its case: a frame of 50 rows whose only failing BUY condition is
\* rsi = 30 has been classified, as HOLD.
C10_Witness ==
    /\ sigOut = "HOLD"
    /\ df.len = 50
    /\ df.rsi = 30
    /\ df.macd_hist = 1
    /\ df.ema20 = 110

\* C11: in the signal pass, a frame of fewer than 50 rows gives HOLD whatever its
\* indicators are, and an iteration whose series is empty, or shorter than 50
\* rows, or whose signal is HOLD submits no order, sends no notification and
\* leaves the book unchanged.
C11_ThinSeriesHolds ==
    [][ lastOp'.kind = "signal"
        => /\ ( lastOp'.fetched /\ lastOp'.rows < 50 ) => lastOp'.signal = "HOLD"
           /\ ( lastOp'.evaluated
                /\ ( ~lastOp'.fetched \/ lastOp'.rows < 50 \/ lastOp'.signal = "HOLD" ) )
                => /\ ~lastOp'.traded
                   /\ lastOp'.notifs = 0
                   /\ positions' = positions
      ]_vars

\* C11, its case: a frame of 49 rows was classified HOLD for an instrument that
\* holds a position, and the position is still in the book as it was.
C11_Witness ==
    /\ lastOp.kind = "signal"
    /\ lastOp.fetched
    /\ lastOp.rows = 49
    /\ lastOp.signal = "HOLD"
    /\ ~lastOp.traded
    /\ lastOp.pos # NoPos
    /\ Get(positions, lastOp.product_id) = lastOp.pos

\* C12: a BUY signal for an instrument without a position whose order succeeds
\* records a LONG position of size 2.00 / current_price entered at
\* current_price * 1.001, and touches no other position; at a close of 50.00 the
\* position is 0.04 at 50.05.
C12_BuyOpensLong ==
    [][ LET p == lastOp'.product_id
            c == lastOp'.current_price
        IN  ( lastOp'.kind = "signal" /\ lastOp'.signal = "BUY"
              /\ ~Has(positions, p) /\ lastOp'.ok )
            => /\ lastOp'.recorded
               /\ Keys(positions') = Keys(positions) \cup { p }
               /\ Get(positions', p).is_short = FALSE
               /\ Get(positions', p).size * c <= 200 * 10000
               /\ ( Get(positions', p).size + 1 ) * c > 200 * 10000
               /\ Get(positions', p).entry_price * 1000 = c * 1001
               /\ c = 5000 => Get(positions', p) =
                    [ size |-> 400, entry_price |-> 5005, is_short |-> FALSE ]
               /\ \A q \in Keys(positions) : Get(positions', q) = Get(positions, q)
      ]_vars

\* C12, its case: a frame of 60 rows closing at 50.00 gave BUY for an instrument
\* without a position, and the book now holds a LONG of 0.04 at 50.05 for it.
C12_Witness ==
    /\ lastOp.kind = "signal"
    /\ lastOp.signal = "BUY"
    /\ lastOp.rows = 60
    /\ lastOp.current_price = 5000
    /\ lastOp.pos = NoPos
    /\ lastOp.recorded
    /\ Get(positions, lastOp.product_id) =
         [ size |-> 400, entry_price |-> 5005, is_short |-> FALSE ]

\* C13: every order handed to execute_trade is priced at current_price * 1.001
\* if it buys and at current_price * 0.999 if it sells, current_price being the
\* price the step observed, in the signal pass and in the stop-loss scan alike.
C13_OrdersAreSkewed ==
    lastOp.traded
    => /\ lastOp.side = "buy" => lastOp.price * 1000 = lastOp.current_price * 1001
       /\ lastOp.side = "sell" => lastOp.price * 1000 = lastOp.current_price * 999

\* C14: a SELL signal for an instrument without a position submits no order,
\* sends no notification and leaves the book unchanged: no SHORT is opened.
C14_SellWithoutPositionIsNoOp ==
    [][ ( lastOp'.kind = "signal" /\ lastOp'.signal = "SELL"
          /\ ~Has(positions, lastOp'.product_id) )
        => /\ ~lastOp'.traded
           /\ lastOp'.notifs = 0
           /\ ~lastOp'.recorded
           /\ positions' = positions
      ]_vars

\* C14, its case: a SELL signal was given for an instrument without a position
\* while another instrument holds one, and the instrument still has none.
C14_Witness ==
    /\ lastOp.kind = "signal"
    /\ lastOp.signal = "SELL"
    /\ lastOp.pos = NoPos
    /\ ~lastOp.traded
    /\ ~Has(positions, lastOp.product_id)
    /\ positions # << >>

\* C15: a failed price fetch or a failed order in an iteration of the stop-loss
\* scan leaves the book as it was and the scan goes on to the next position of
\* its snapshot, so that the finished scan has visited every position open at
\* the cycle's start; a failed candle fetch or a failed order in an iteration of
\* the signal pass leaves the book as it was and the pass goes on, so that the
\* cycle ends with every listed product visited and every USD product of the
\* list evaluated.
C15_FailureDoesNotAbort ==
    /\ [][ ( lastOp'.kind = "stop_loss"
             /\ ( ~lastOp'.fetched \/ ( lastOp'.traded /\ ~lastOp'.ok ) ) )
           => /\ positions' = positions
              /\ scanQueue' = Tail(scanQueue)
              /\ pc' = "stop_loss"
         ]_vars
    /\ [][ ( lastOp'.kind = "signal" /\ lastOp'.evaluated
             /\ ( ~lastOp'.fetched \/ ( lastOp'.traded /\ ~lastOp'.ok ) ) )
           => /\ positions' = positions
              /\ idx' = idx + 1
              /\ pc' = "signals"
         ]_vars
    /\ [] ( lastOp.kind \in { "products", "signal", "end" }
            => cycle.scanned = cycle.openAtStart )
    /\ [] ( lastOp.kind = "end"
            => /\ cycle.visited = cycle.sliced
               /\ cycle.evaluated = { p \in cycle.sliced : EndsWithUSD(p) } )

\* C15, its case: in a live cycle begun with positions in B-USD and A-USD, B-USD
\* first, the stop-loss close of B-USD failed and the scan still visited A-USD;
\* the BUY order for B-USD failed in the signal pass and the pass still went on
\* to A-USD and traded it.
C15_Witness ==
    /\ ~SAFE_MODE
    /\ lastOp.kind = "signal"
    /\ lastOp.product_id = "A-USD"
    /\ lastOp.traded
    /\ lastOp.ok
    /\ cycle.openAtStart = { "A-USD", "B-USD" }
    /\ cycle.scanned = cycle.openAtStart
    /\ cycle.failedSites = { "stop_loss", "buy" }
    /\ cycle.failedProducts = { "B-USD" }
    /\ positions # << >>
    /\ positions[1].product_id = "B-USD"

\* C16: once an order for an instrument has failed in a cycle, no step of the
\* same cycle hands execute_trade another order for that instrument.
C16_NoRetryWithinCycle ==
    [][ lastOp'.traded => lastOp'.product_id \notin cycle.failedProducts ]_vars

\* C17: every call of execute_trade makes exactly one call of
\* send_telegram_message, in simulation, on success and on failure; what
\* execute_trade returns depends on the mode and the order alone, not on the
\* delivery of the message; the book is updated exactly when the order is
\* reported successful, delivered or not; and the loop the step belongs to goes on.
C17_OneNotificationPerTrade ==
    /\ [] ( lastOp.traded
            => /\ lastOp.notifs = 1
               /\ lastOp.ok <=> ( SAFE_MODE \/ lastOp.placed )
               /\ SAFE_MODE => ~lastOp.contacted
               /\ ~SAFE_MODE => lastOp.contacted )
    /\ [][ lastOp'.traded
           => /\ lastOp'.ok => ( lastOp'.recorded \/ lastOp'.closed )
              /\ ~lastOp'.ok => positions' = positions
              /\ lastOp'.kind = "stop_loss" => scanQueue' = Tail(scanQueue)
              /\ lastOp'.kind = "signal" => ( idx' = idx + 1 /\ pc' = "signals" )
         ]_vars

\* C17, its case: in live mode an order was placed, the notification of it did
\* not get through, and the position was recorded all the same.
C17_Witness ==
    /\ ~SAFE_MODE
    /\ lastOp.traded
    /\ lastOp.notifs = 1
    /\ ~lastOp.delivered
    /\ lastOp.placed
    /\ lastOp.ok
    /\ lastOp.recorded
    /\ Has(positions, lastOp.product_id)

\* An order that closes a position: every order of the stop-loss scan, and the
\* sell orders of the signal pass.
ClosingOrder(op) ==
    op.traded /\ ( op.kind = "stop_loss" \/ ( op.kind = "signal" /\ op.side = "sell" ) )

\* C18: in the cycles of trading_bot, a step whose closing order succeeds runs
\* calculate_pl, which removes the position; calculate_pl runs only in a step
\* whose closing order succeeded, on an instrument that had a position; and the
\* signal pass closes no instrument the stop-loss scan of the same cycle closed.
C18_RealizedOncePerClose ==
    [][ LET p == lastOp'.product_id
        IN  /\ ( ClosingOrder(lastOp') /\ lastOp'.ok )
                 => /\ PlCalled(lastOp')
                    /\ lastOp'.closed
                    /\ Has(positions, p)
                    /\ ~Has(positions', p)
            /\ PlCalled(lastOp')
                 => /\ ClosingOrder(lastOp') /\ lastOp'.ok
                    /\ Has(positions, p)
            /\ ( lastOp'.kind = "signal" /\ lastOp'.closed )
                 => p \notin cycle.stopClosed
      ]_vars

\* C18, its case: the signal pass has closed a position by a SELL in a cycle whose
\* stop-loss scan had closed another one.
C18_Witness ==
    /\ lastOp.kind = "signal"
    /\ lastOp.side = "sell"
    /\ lastOp.ok
    /\ lastOp.closed
    /\ ~Has(positions, lastOp.product_id)
    /\ cycle.stopClosed # {}
    /\ lastOp.product_id \notin cycle.stopClosed

\* The USD-quoted, trading-enabled products of a listing, in its order.
UsdEnabled(listing) ==
    SelectSeq(listing, LAMBDA p : ~p.trading_disabled /\ EndsWithUSD(p.product_id))

\* C19: at the end of a cycle the signal pass has evaluated at most 10
\* instruments, all of them USD-quoted and trading-enabled in the listing, and
\* exactly the first 10 of the listing's USD-quoted trading-enabled products
\* (all of them when there are fewer).
C19_EvaluatedUniverse ==
    lastOp.kind = "end"
    => LET universe == UsdEnabled(cycle.listing)
           ten == FirstTen(universe)
       IN  /\ Cardinality(cycle.evaluated) <= 10
           /\ \A p \in cycle.evaluated :
                /\ EndsWithUSD(p)
                /\ \E i \in 1..Len(cycle.listing) :
                     /\ cycle.listing[i].product_id = p
                     /\ ~cycle.listing[i].trading_disabled
           /\ cycle.evaluated = { ten[i].product_id : i \in 1..Len(ten) }

\* C20: while every position stays in breach of its stop and the price fetches
\* and closing orders succeed, a position in the book is, under fair scheduling,
\* removed by the stop-loss scan, and no position is left in the book when a
\* scan has finished.
C20_BreachedStopIsClosed ==
    /\ \A p \in { "A-USD", "B-USD" } :
         Has(positions, p) ~> ( ~Has(positions, p) /\ pc = "stop_loss" )
    /\ [] ( ( pc = "stop_loss" /\ scanQueue = << >> ) => positions = << >> )

\* C20, its case: a scan that began with two LONG positions in breach has just
\* closed the second one and the book is empty.
C20_Witness ==
    /\ lastOp.kind = "stop_loss"
    /\ lastOp.closed
    /\ ~lastOp.pos.is_short
    /\ lastOp.current_price * 100 <= lastOp.pos.entry_price * 98
    /\ Cardinality(cycle.openAtStart) = 2
    /\ cycle.stopClosed = cycle.openAtStart
    /\ scanQueue = << >>
    /\ positions = << >>

\* C21: in the cycles of trading_bot every position in the book is LONG and
\* every key of the book is a USD-quoted instrument id; a position is recorded
\* only by the BUY branch of the signal pass, as a LONG; and check_stop_loss and
\* calculate_pl only ever handle LONG positions, so their SHORT branches are
\* never taken.
C21_AllPositionsLongUsd ==
    /\ \A i \in 1..Len(positions) :
         /\ ~positions[i].pos.is_short
         /\ EndsWithUSD(positions[i].product_id)
    /\ lastOp.recorded
         => /\ lastOp.kind = "signal"
            /\ lastOp.signal = "BUY"
            /\ lastOp.side = "buy"
            /\ ~Get(positions, lastOp.product_id).is_short
    /\ lastOp.kind = "stop_loss"
         => /\ ~lastOp.pos.is_short
            /\ lastOp.traded => lastOp.side = "sell"
    /\ PlCalled(lastOp) => ~lastOp.pos.is_short

\* C21, its case: a listing with EUR-quoted products ahead of the USD-quoted
\* ones was scanned to its end in a cycle whose stop-loss scan had sold one LONG
\* position, and the book holds two positions, in A-USD and B-USD.
C21_Witness ==
    /\ lastOp.kind = "end"
    /\ "C-EUR" \in cycle.visited
    /\ cycle.stopClosed # {}
    /\ Keys(positions) = { "A-USD", "B-USD" }
    /\ \A i \in 1..Len(positions) : ~positions[i].pos.is_short

=============================================================================
